---- MODULE Spec2Model ----
(***************************************************************************)
(* A model of io_urine's ring engine: the submission ring                  *)
(* (src/src/sq.rs), the completion ring (src/src/cq.rs) and the IoUring    *)
(* orchestrator (src/src/io_uring.rs), together with the kernel that       *)
(* shares the rings' memory with them.                                     *)
(*                                                                         *)
(* Specifications:                                                         *)
(*   SpecSq  the SubmissionQueue API called directly (peek_sqe, write_sqe, *)
(*           advance, update_kernel_tail, update_from_kernel, and          *)
(*           IoUring::get_sqe on top of peek_sqe), with a kernel that      *)
(*           consumes published entries at any time;                       *)
(*   SpecCq  the CompletionQueue API called directly (update_kernel_tail,   *)
(*           peek, advance), with a kernel that posts completions at any   *)
(*           time;                                                         *)
(*   Spec    the IoUring API (get_sqe, submit, peek_cqe, copy_cqes,        *)
(*           cqe_seen), with a kernel that consumes entries inside         *)
(*           io_uring_enter and posts completions at any time;             *)
(*   SpecCreate  creating and destroying the engine;                       *)
(*   SpecAlloc  the user_data allocator (alloc_user_data, free_user_data   *)
(*           and the two counts);                                          *)
(*   SpecWait  submit() and submit_and_wait() against the kernel;          *)
(*   SpecPrep  IoUring::prepare and the wrappers built on it (nop, read,   *)
(*           write, close) with get_sqe and submit;                        *)
(*   SpecReclaim  the slot-recycling path of the IoUring API               *)
(*           (get_sqe_with_reclaim, reclaim_sqe) with submit, the caller   *)
(*           reclaiming only while nothing is queued;                      *)
(*   SpecReclaimHeld  the same with a caller that reclaims at any time;    *)
(*   SpecFrame  the index-refreshing and read-only methods of both queues; *)
(*   SpecRegister  the registration methods against the kernel;            *)
(*   SpecCqe  the conversion of a completion's result (src/src/cqe.rs).    *)
(***************************************************************************)
EXTENDS Integers, Sequences, FiniteSets, TLC

(***************************************************************************)
(* Bounds of the model.                                                    *)
(***************************************************************************)
\* SpecSq: no slot is acquired once the shadow tail has reached MaxTail.
MaxTail == 26
\* SpecSq: the kernel takes no entry once its head has reached MaxConsume.
MaxConsume == 3
\* Spec, SpecReclaim: no slot is acquired once the shadow tail has reached
\* MaxOps.
MaxOps == 3
\* SpecReclaim: reclaim_sqe is not called once the cache holds MaxCache slots.
MaxCache == 1
\* Spec: cqe_seen is not called once the shadow completion head is MaxSeen;
\* SpecCq: advance does not take the shadow completion head beyond MaxSeen.
MaxSeen == 3

\* The kernel drops at most this many completions.
MaxOverflow == 2
\* SpecAlloc: alloc_user_data is not called while MaxLive tags are held.
MaxLive == 4
\* SpecCqe: the results converted lie within MaxErrno of zero or of either
\* end of the i32 range.
MaxErrno == 40

(***************************************************************************)
(* Unsigned word arithmetic (AtomicU32, u32::wrapping_add/wrapping_sub).   *)
(* The code's words are 32 bits wide; TLC's integers end at 2^31 - 1, so   *)
(* the model's words are 16 bits wide.  Every position the bounds above    *)
(* let the model reach is far below either modulus.                        *)
(***************************************************************************)
U32 == 2^16

wrapping_add(a, b) == (a + b) % U32

wrapping_sub(a, b) == (a - b + U32) % U32

RECURSIVE BitAnd(_, _)
BitAnd(a, b) ==
  IF a = 0 \/ b = 0 THEN 0
  ELSE (a % 2) * (b % 2) + 2 * BitAnd(a \div 2, b \div 2)

\* Option::None of an Option<slot>; a slot is its index in the SQE mapping.
NONE == 0 - 1

(***************************************************************************)
(* What io_uring_setup reports (io_uring_params).  sq_entries/cq_entries   *)
(* are the ring capacities, powers of two.  sq_off and cq_off hold BYTE    *)
(* OFFSETS into the ring mapping: the cell at offset sq_off.ring_mask      *)
(* holds sq_entries - 1 and the cell at sq_off.ring_entries holds          *)
(* sq_entries.  The offsets below are those of struct io_rings on a        *)
(* kernel built without SMP cache-line alignment (sq head 0, sq tail 4,    *)
(* cq head 8, cq tail 12, sq_ring_mask 16, cq_ring_mask 20,                *)
(* sq_ring_entries 24, cq_ring_entries 28); an SMP x86-64 kernel reports   *)
(* 256, 260, 264 and 268.  with_entries and new leave params.flags at 0,   *)
(* so the kernel ignores the cq_entries they ask for (IORING_SETUP_CQSIZE  *)
(* is not set) and makes the completion ring twice the submission ring.    *)
(***************************************************************************)
KernelParams ==
  { [sq_entries |-> n, cq_entries |-> 2 * n,
     sq_off |-> [ring_mask |-> 16, ring_entries |-> 24],
     cq_off |-> [ring_mask |-> 20, ring_entries |-> 28]] : n \in {2} }

Max(a, b) == IF a >= b THEN a ELSE b

Min(a, b) == IF a <= b THEN a ELSE b

\* The user_data a caller writes into an entry.  An entry it leaves as
\* get_sqe zeroed it carries user_data 0, so two values are told apart.
UserData == {1}

\* io_uring_sqe::default(): every field zero.  ioprio, rw_flags,
\* personality, splice_fd_in, addr3 and the padding, which no operation
\* modelled here writes, are left out.
ZeroSqe ==
  [opcode |-> 0, flags |-> 0, fd |-> 0, off |-> 0, addr |-> 0, len |-> 0,
   user_data |-> 0, buf_index |-> 0]

\* The tags an entry the kernel reads can carry.
Tags == {0} \cup UserData

\* The values of a u64 counter, scaled down: U64 stands for 2^64.
U64 == 2^2

\* The tags alloc_user_data can return; 0 is the reserved value.
UdTags == 0 .. U64 - 1

\* The Err(EnterError::SyscallFailed(errno)) of io_uring_enter, as -EINTR.
EnterErr == 0 - 4

(***************************************************************************)
(* State.                                                                  *)
(*   next_user_data  the allocator's counter (IoUring::next_user_data)     *)
(*   free_user_data  the freed tags awaiting reuse, a stack                *)
(*                (IoUring::free_user_data)                                *)
(*   allocated    per tag, how many callers hold it: returned by           *)
(*                alloc_user_data and not freed since                      *)
(*   reg          what the kernel has registered for the ring: the number  *)
(*                of buffers and of files                                  *)
(*   life         the engine's creation and destruction:                   *)
(*                  stage     where IoUring::new / with_entries /          *)
(*                            create_ring or the drop of the IoUring is    *)
(*                  ctor      the constructor called                       *)
(*                  requested the entries it was called with (sq, cq)      *)
(*                  passed    the entries it passed to io_uring_setup      *)
(*                  fd        the ring's file descriptor: none, open or    *)
(*                            closed                                       *)
(*                  maps      per mapping: none, mapped or unmapped        *)
(*                  unmaps    per mapping, how often munmap was called     *)
(*                  descs     per ring descriptor (sq, cq): none, live or  *)
(*                            dropped                                      *)
(*                  dropped   how many fields of the IoUring have been     *)
(*                            dropped                                      *)
(*                  result    what the constructor returned                *)
(*   params       what io_uring_setup reported                             *)
(*   sq           the SubmissionQueue: kring_mask, kring_entries, sqe_mask,*)
(*                sqe_entries and the shadow head and tail                 *)
(*   sq_khead     kernel-visible submission head  [sq.khead]               *)
(*   sq_ktail     kernel-visible submission tail  [sq.ktail]               *)
(*   sq_array     the index array                 (sq.array)               *)
(*   sqes         the submission entries          (sq.sqe_ptr), each       *)
(*                entry a record of the fields of io_uring_sqe             *)
(*   sqe_cache    the slots handed back with reclaim_sqe (sq.sqe_cache)    *)
(*   cq           the CompletionQueue: kring_mask, kring_entries and the   *)
(*                shadow head and tail                                     *)
(*   cq_khead     kernel-visible completion head  [cq.khead]               *)
(*   cq_ktail     kernel-visible completion tail  [cq.ktail]               *)
(*   cq_koverflow the kernel's overflow counter   [cq.koverflow]           *)
(*   cqes         the completion entries          (cq.cqe_ptr), each       *)
(*                entry stood for by its user_data                         *)
(*   inflight     user_data of the entries the kernel took and has not    *)
(*                completed yet (a bag)                                    *)
(*   held         the slot whose &mut the caller holds, or NONE            *)
(*   pc           where the caller is inside submit()                      *)
(*   call         the locals of the running submit(): to_submit, result,   *)
(*                the arguments it passed to enter; and, noted when it     *)
(*                started: carried, what the previous submit() left        *)
(*                unaccepted, and reacq, the slots acquired since then     *)
(*   steps        the steps the running or last submit() has performed     *)
(*   acquired     slots acquired since the last update_kernel_tail         *)
(*   unpublished  the slots queued since the last update_kernel_tail, in   *)
(*                order: those peek_sqe/get_sqe handed out, write_sqe      *)
(*                filled and advance stepped over                          *)
(*   seen_empty   whether cqe_seen was ever called with nothing unread     *)
(*   last         the last call that returned: its name, what it returned  *)
(*                and in acq, for update_kernel_tail, `acquired` when      *)
(*                called, for copy_cqes the count it was asked for, for    *)
(*                get_sqe 1 when the slot handed out held a non-zero       *)
(*                entry, and for prepare the operation it was passed       *)
(*   hist         what has happened on the ring so far (IoUring API only): *)
(*                  written  per acquisition, the user_data the caller     *)
(*                           left in the entry it was handed               *)
(*                  cells    per acquisition, the index-array cell that    *)
(*                           was written for it                            *)
(*                  fresh    whether the entry the caller holds comes from *)
(*                           the last acquisition                          *)
(*                  taken    per position the kernel consumed, the         *)
(*                           user_data of the entry it read                *)
(*                  posted   per completion the kernel posted, its         *)
(*                           user_data                                     *)
(***************************************************************************)
VARIABLES next_user_data, free_user_data, allocated, reg,
          life, params, sq, sq_khead, sq_ktail, sq_array, sqes, sqe_cache,
          cq, cq_khead, cq_ktail, cq_koverflow, cqes,
          inflight, held, pc, call, steps, acquired, unpublished,
          seen_empty, last, hist

vars == <<next_user_data, free_user_data, allocated, reg,
          life, params, sq, sq_khead, sq_ktail, sq_array, sqes, sqe_cache,
          cq, cq_khead, cq_ktail, cq_koverflow, cqes,
          inflight, held, pc, call, steps, acquired, unpublished,
          seen_empty, last, hist>>

\* The user_data allocator and the kernel's registrations.
sidevars == <<next_user_data, free_user_data, allocated, reg>>

\* The two rings and the calls made on them.
corevars == <<params, sq, sq_khead, sq_ktail, sq_array, sqes, sqe_cache,
              cq, cq_khead, cq_ktail, cq_koverflow, cqes,
              inflight, held, pc, call, steps, acquired, unpublished,
              seen_empty, last, hist>>

\* The same without the record of the last call.
corevars_but_last ==
  <<params, sq, sq_khead, sq_ktail, sq_array, sqes, sqe_cache,
    cq, cq_khead, cq_ktail, cq_koverflow, cqes,
    inflight, held, pc, call, steps, acquired, unpublished,
    seen_empty, hist>>

\* Everything but life.
ringvars == <<corevars, sidevars>>

sqvars == <<sq, sq_khead, sq_ktail, sq_array, sqes>>

cqvars == <<cq, cq_khead, cq_ktail, cq_koverflow, cqes>>

callvars == <<pc, call, steps>>

ghostvars == <<acquired, unpublished, seen_empty>>

Returned(op, ret) == [op |-> op, ret |-> ret, acq |-> 0]

(***************************************************************************)
(* The mappings are rounded up to whole pages, so an index beyond the ring *)
(* but inside the page lands in mapped memory that the kernel never reads. *)
(* The model keeps the cells up to the largest index the code can form.    *)
(***************************************************************************)
SqCells(p) == 0 .. Max(p.sq_entries - 1, p.sq_off.ring_mask)

CqCells(p) == 0 .. Max(p.cq_entries - 1, p.cq_off.ring_mask)

(***************************************************************************)
(* SubmissionQueue (src/src/sq.rs).                                        *)
(***************************************************************************)
\* Mutant of SubmissionQueue::new: mask and capacity are the values the
\* kernel keeps in the cells at the offsets, not the offsets.
SqNewFromCells(offsets, sq_entries) ==
  [kring_mask    |-> sq_entries - 1,
   kring_entries |-> sq_entries,
   sqe_mask      |-> sq_entries - 1,
   sqe_entries   |-> sq_entries,
   head          |-> 0,
   tail          |-> 0]

SqNew(offsets, sq_entries) ==
  [kring_mask    |-> offsets.ring_mask,
   kring_entries |-> offsets.ring_entries,
   sqe_mask      |-> sq_entries - 1,
   sqe_entries   |-> sq_entries,
   head          |-> 0,
   tail          |-> 0]

ring_mask(q) == q.kring_mask

ring_entries(q) == q.kring_entries

\* `self.kring_entries - tail.wrapping_sub(head)` on u32: the value without
\* overflow checks, and whether the subtraction overflows (a build with
\* overflow checks panics there).
space_left(q) ==
  [value    |-> (q.kring_entries - wrapping_sub(q.tail, q.head) + U32) % U32,
   overflow |-> q.kring_entries < wrapping_sub(q.tail, q.head)]

is_full(q) == space_left(q).value = 0

SqIsFull(q) == q.tail = wrapping_add(q.head, q.kring_entries)

\* Mutant of peek_sqe: the fullness check is missing.
peek_sqe_unchecked(q, array) ==
  LET index == BitAnd(q.tail, q.kring_mask) IN
  [ret   |-> index,
   q     |-> [q EXCEPT !.tail = wrapping_add(q.tail, 1)],
   array |-> [array EXCEPT ![index] = index]]

\* Mutant of peek_sqe: the unmasked tail is stored in the index array.
peek_sqe_unmasked(q, array) ==
  IF SqIsFull(q)
  THEN [ret |-> NONE, q |-> q, array |-> array]
  ELSE LET index == BitAnd(q.tail, q.kring_mask) IN
       [ret   |-> index,
        q     |-> [q EXCEPT !.tail = wrapping_add(q.tail, 1)],
        array |-> [array EXCEPT ![index] = q.tail]]

\* peek_sqe: the slot returned (or NONE), the queue and the index array after.
peek_sqe(q, array) ==
  IF SqIsFull(q)
  THEN [ret |-> NONE, q |-> q, array |-> array]
  ELSE LET index == BitAnd(q.tail, q.kring_mask) IN
       [ret   |-> index,
        q     |-> [q EXCEPT !.tail = wrapping_add(q.tail, 1)],
        array |-> [array EXCEPT ![index] = index]]

sq_advance(q, count) == [q EXCEPT !.tail = wrapping_add(q.tail, count)]

\* write_sqe: copies the entry into the slot at tail & mask; no fullness check.
write_sqe(q, array, entries, sqe) ==
  LET index == BitAnd(q.tail, q.kring_mask) IN
  [q       |-> [q EXCEPT !.tail = wrapping_add(q.tail, 1)],
   array   |-> [array EXCEPT ![index] = index],
   entries |-> [entries EXCEPT ![index] = sqe]]

\* Mutant of update_from_kernel: the shadow head falls back to the start.
update_from_kernel_reset(q, khead) == [q EXCEPT !.head = 0]

\* Mutant of update_from_kernel: everything queued is taken as consumed.
update_from_kernel_all(q, khead) == [q EXCEPT !.head = q.tail]

\* Mutant of update_from_kernel: the shadow tail is pulled back as well.
update_from_kernel_and_tail(q, khead) ==
  [q EXCEPT !.head = khead, !.tail = khead]

update_from_kernel(q, khead) == [q EXCEPT !.head = khead]

\* Mutant of update_kernel_tail: the count is the tail, the head is forgotten.
sq_update_kernel_tail_nohead(q) ==
  [ret |-> q.tail, ktail |-> q.tail]

\* update_kernel_tail: the count returned and the kernel-visible tail after.
sq_update_kernel_tail(q) ==
  [ret |-> wrapping_sub(q.tail, q.head), ktail |-> q.tail]

(***************************************************************************)
(* CompletionQueue (src/src/cq.rs).                                        *)
(***************************************************************************)
CqNew(offsets) ==
  [kring_mask    |-> offsets.ring_mask,
   kring_entries |-> offsets.ring_entries,
   head          |-> 0,
   tail          |-> 0]

cq_update_kernel_tail(c, ktail) == [c EXCEPT !.tail = ktail]

events_available(c) == wrapping_sub(c.tail, c.head)

\* Mutant of peek: the head is not masked.
peek_unmasked(c) == IF c.tail = c.head THEN NONE ELSE c.head

\* peek: the index of the entry returned, or NONE.
peek(c) == IF c.tail = c.head THEN NONE ELSE BitAnd(c.head, c.kring_mask)

\* Mutant of advance: the head moves by one whatever the count.
cq_advance_one(c, count) == [c EXCEPT !.head = wrapping_add(c.head, 1)]

cq_advance(c, count) == [c EXCEPT !.head = wrapping_add(c.head, count)]

\* Mutant of is_empty: the ring is judged by its tail alone.
is_empty_by_tail(c) == c.tail = 0

is_empty(c) == events_available(c) = 0

\* IoUring::sq_space_left, cq_space_left, is_sq_full and is_cq_empty: each
\* forwards to the queue.
sq_space_left(q) == space_left(q).value

cq_space_left(c) == events_available(c)

is_sq_full(q) == is_full(q)

is_cq_empty(c) == is_empty(c)

\* Nothing has happened on the ring yet.
NoHist ==
  [written |-> <<>>, cells |-> <<>>, fresh |-> FALSE, taken |-> <<>>,
   posted |-> <<>>]

\* The locals of submit() before it has run; kind is the method called
\* (submit or submit_and_wait) and wait its wait_count argument.
NoCall ==
  [kind |-> "submit", wait |-> 0, to_submit |-> 0, entered |-> <<>>,
   result |-> 0, carried |-> 0, reacq |-> 0]

\* What a submit() whose locals are c left unaccepted: its whole count when
\* io_uring_enter failed.
Unaccepted(c) ==
  IF c.result >= 0 THEN c.to_submit - c.result ELSE c.to_submit

\* Before a constructor is called.
NoLife ==
  [stage |-> "start", ctor |-> "none",
   requested |-> [sq |-> 0, cq |-> 0], passed |-> [sq |-> 0, cq |-> 0],
   fd |-> "none",
   maps |-> [sq |-> "none", cq |-> "none", sqes |-> "none"],
   unmaps |-> [sq |-> 0, cq |-> 0, sqes |-> 0],
   descs |-> [sq |-> "none", cq |-> "none"],
   dropped |-> 0, result |-> "none"]

\* After IoUring::with_entries(2, 2) returned Ok.
Alive ==
  [NoLife EXCEPT !.stage = "alive", !.ctor = "with_entries",
                 !.requested = [sq |-> 2, cq |-> 2],
                 !.passed = [sq |-> 2, cq |-> 2],
                 !.fd = "open",
                 !.maps = [sq |-> "mapped", cq |-> "mapped",
                           sqes |-> "mapped"],
                 !.descs = [sq |-> "live", cq |-> "live"],
                 !.result = "Ok"]

(***************************************************************************)
(* The state after IoUring::create_ring: the kernel has zeroed the ring    *)
(* memory, and both queues start with shadow head = shadow tail = 0.       *)
(***************************************************************************)
InitRing ==
  /\ params \in KernelParams
  /\ sq = SqNew(params.sq_off, params.sq_entries)
  /\ sq_khead = 0
  /\ sq_ktail = 0
  /\ sq_array = [i \in SqCells(params) |-> 0]
  /\ sqes = [i \in SqCells(params) |-> ZeroSqe]
  /\ cq = CqNew(params.cq_off)
  /\ cq_khead = 0
  /\ cq_ktail = 0
  /\ cq_koverflow = 0
  /\ cqes = [i \in CqCells(params) |-> 0]
  /\ inflight = [t \in Tags |-> 0]
  /\ held = NONE
  /\ pc = "idle"
  /\ call = NoCall
  /\ steps = <<>>
  /\ acquired = 0
  /\ unpublished = <<>>
  /\ seen_empty = FALSE
  /\ last = Returned("new", 0)
  /\ sqe_cache = <<>>
  /\ hist = NoHist
  /\ next_user_data = 1
  /\ free_user_data = <<>>
  /\ allocated = [t \in UdTags |-> 0]
  /\ reg = [buffers |-> 0, files |-> 0]

Init ==
  /\ life = Alive
  /\ InitRing

(***************************************************************************)
(* The user_data allocator (IoUring::alloc_user_data, free_user_data,      *)
(* allocated_user_data_count, available_user_data_count).                  *)
(***************************************************************************)
\* alloc_user_data: the tag on top of the free list when there is one; else
\* the counter's value, the counter moving on by fetch_add(1), and when the
\* value read is 0 the counter is stored 2 and 1 is returned.
alloc_user_data(next, free) ==
  IF free # <<>>
  THEN [ret |-> free[Len(free)], next |-> next,
        free |-> SubSeq(free, 1, Len(free) - 1)]
  ELSE IF next = 0
       THEN [ret |-> 1, next |-> 2 % U64, free |-> free]
       ELSE [ret |-> next, next |-> (next + 1) % U64, free |-> free]

\* free_user_data: the tag is pushed on the free list unless it is 0.
free_user_data_push(free, user_data) ==
  IF user_data # 0 THEN Append(free, user_data) ELSE free

\* allocated_user_data_count: 0 while the counter is 0 or 1, else
\* (next_val as usize).saturating_sub(freed_count).
allocated_user_data_count(next, free) ==
  IF next = 0 THEN 0
  ELSE IF next = 1 THEN 0
  ELSE Max(next - Len(free), 0)

\* available_user_data_count: the length of the free list.
available_user_data_count(free) == Len(free)

RECURSIVE SumOver(_, _)
SumOver(f, S) ==
  IF S = {} THEN 0
  ELSE LET x == CHOOSE y \in S : TRUE IN f[x] + SumOver(f, S \ {x})

\* The number of tags callers hold.
Live == SumOver(allocated, DOMAIN allocated)

AllocUserData ==
  /\ Live < MaxLive
  /\ LET r == alloc_user_data(next_user_data, free_user_data) IN
       /\ next_user_data' = r.next
       /\ free_user_data' = r.free
       /\ allocated' = [allocated EXCEPT ![r.ret] = @ + 1]
       /\ last' = Returned("alloc_user_data", r.ret)
  /\ UNCHANGED <<life, corevars_but_last, reg>>

\* The caller frees a tag it holds, or the reserved tag 0.
FreeUserData ==
  /\ \E t \in UdTags :
       /\ t = 0 \/ allocated[t] > 0
       /\ free_user_data' = free_user_data_push(free_user_data, t)
       /\ allocated' = IF t = 0 THEN allocated
                       ELSE [allocated EXCEPT ![t] = @ - 1]
       /\ last' = Returned("free_user_data", t)
  /\ UNCHANGED <<life, corevars_but_last, reg, next_user_data>>

AllocatedUserDataCount ==
  /\ last' = Returned("allocated_user_data_count",
                      allocated_user_data_count(next_user_data,
                                                free_user_data))
  /\ UNCHANGED <<life, corevars_but_last, sidevars>>

AvailableUserDataCount ==
  /\ last' = Returned("available_user_data_count",
                      available_user_data_count(free_user_data))
  /\ UNCHANGED <<life, corevars_but_last, sidevars>>

NextAlloc ==
  \/ AllocUserData
  \/ FreeUserData
  \/ AllocatedUserDataCount
  \/ AvailableUserDataCount

SpecAlloc == Init /\ [][NextAlloc]_vars

(***************************************************************************)
(* Creation and destruction of the engine (IoUring::new, with_entries,     *)
(* create_ring, RwMmap::new, the drops of RwMmap and IoUring).  The ring   *)
(* variables hold what the ring will start with once creation succeeds.    *)
(***************************************************************************)
\* The entries a caller asks for.
Requested == {0, 1, 2, 4096, 4097}

\* Mutant of clamp: only the lower limit is applied.
clamp_from_below(v, lo, hi) == Max(v, lo)

\* u32::clamp(self, min, max).
clamp(v, lo, hi) == IF v < lo THEN lo ELSE IF v > hi THEN hi ELSE v

\* IoUring::new: params.sq_entries and params.cq_entries for entries.
new_entries(entries) ==
  LET sq_entries == IF entries = 0 THEN 32 ELSE clamp(entries, 1, 4096) IN
  [sq |-> sq_entries, cq |-> sq_entries]

\* IoUring::with_entries: params.sq_entries and params.cq_entries.
with_entries_entries(sq_entries, cq_entries) ==
  [sq |-> clamp(sq_entries, 1, 4096), cq |-> clamp(cq_entries, 1, 4096)]

\* The order in which create_ring makes the three mappings.
MmapOrder == <<"sq", "cq", "sqes">>

\* The fields of struct IoUring that own something, in declaration order,
\* which is the order in which they are dropped.
FieldOrder == <<"fd", "_sq_mmap", "_cq_mmap", "_sqe_mmap", "sq", "cq">>

\* impl Drop for RwMmap: munmap of the mapping m.
unmap(l, m) ==
  [l EXCEPT !.maps[m] = "unmapped", !.unmaps[m] = @ + 1]

\* Dropping one field of the IoUring.
drop_field(l, f) ==
  CASE f = "fd" -> [l EXCEPT !.fd = "closed"]
    [] f = "_sq_mmap" -> unmap(l, "sq")
    [] f = "_cq_mmap" -> unmap(l, "cq")
    [] f = "_sqe_mmap" -> unmap(l, "sqes")
    [] f = "sq" -> [l EXCEPT !.descs.sq = "dropped"]
    [] f = "cq" -> [l EXCEPT !.descs.cq = "dropped"]

\* The mappings made so far.
Mapped(l) == {m \in DOMAIN l.maps : l.maps[m] = "mapped"}

\* IoUring::new(entries) up to the call of io_uring_setup.
CreateNew ==
  /\ life.stage = "start"
  /\ \E entries \in Requested :
       life' = [life EXCEPT !.stage = "setup", !.ctor = "new",
                            !.requested = [sq |-> entries, cq |-> entries],
                            !.passed = new_entries(entries)]
  /\ UNCHANGED ringvars

\* IoUring::with_entries(sq_entries, cq_entries) up to io_uring_setup.
CreateWithEntries ==
  /\ life.stage = "start"
  /\ \E sq_entries \in Requested, cq_entries \in Requested :
       life' = [life EXCEPT
                  !.stage = "setup", !.ctor = "with_entries",
                  !.requested = [sq |-> sq_entries, cq |-> cq_entries],
                  !.passed = with_entries_entries(sq_entries, cq_entries)]
  /\ UNCHANGED ringvars

\* io_uring_setup returns the descriptor; create_ring is called with it.
SetupOk ==
  /\ life.stage = "setup"
  /\ life' = [life EXCEPT !.stage = "mmap", !.fd = "open"]
  /\ UNCHANGED ringvars

\* io_uring_setup fails: map_err(InitError::SyscallFailed)?
SetupErr ==
  /\ life.stage = "setup"
  /\ life' = [life EXCEPT !.stage = "failed", !.result = "SyscallFailed"]
  /\ UNCHANGED ringvars

\* The next RwMmap::new of create_ring succeeds; after the third the two
\* descriptors are built and Ok(Self { .. }) is returned.
MmapOk ==
  /\ life.stage = "mmap"
  /\ LET m == MmapOrder[Cardinality(Mapped(life)) + 1]
         l == [life EXCEPT !.maps[m] = "mapped"] IN
       life' = IF Cardinality(Mapped(l)) < Len(MmapOrder) THEN l
               ELSE [l EXCEPT !.stage = "alive",
                              !.descs = [sq |-> "live", cq |-> "live"],
                              !.result = "Ok"]
  /\ UNCHANGED ringvars

\* Mutant of MmapErr: the early return lets go of nothing.
MmapErrLeaking ==
  /\ life.stage = "mmap"
  /\ life' = [life EXCEPT !.stage = "failed", !.result = "MmapFailed"]
  /\ UNCHANGED ringvars

\* The next RwMmap::new of create_ring fails: `?` returns
\* InitError::MmapFailed, dropping the mappings already made (locals) and
\* the OwnedFd (argument).
MmapErr ==
  /\ life.stage = "mmap"
  /\ life' = [life EXCEPT
                !.stage = "failed", !.result = "MmapFailed",
                !.fd = "closed",
                !.maps = [m \in DOMAIN @ |->
                            IF @[m] = "mapped" THEN "unmapped" ELSE @[m]],
                !.unmaps = [m \in DOMAIN @ |->
                              IF life.maps[m] = "mapped" THEN @[m] + 1
                              ELSE @[m]]]
  /\ UNCHANGED ringvars

\* The IoUring goes out of scope: Drop::drop (empty) runs.
DropIoUring ==
  /\ life.stage = "alive"
  /\ life' = [life EXCEPT !.stage = "dropping"]
  /\ UNCHANGED ringvars

\* The next field of the IoUring is dropped, in declaration order.
DropField ==
  /\ life.stage = "dropping"
  /\ LET l == drop_field(life, FieldOrder[life.dropped + 1]) IN
       life' = [l EXCEPT !.dropped = @ + 1,
                         !.stage = IF life.dropped + 1 = Len(FieldOrder)
                                   THEN "dropped" ELSE "dropping"]
  /\ UNCHANGED ringvars

InitCreate ==
  /\ life = NoLife
  /\ InitRing

NextCreate ==
  \/ CreateNew
  \/ CreateWithEntries
  \/ SetupOk
  \/ SetupErr
  \/ MmapOk
  \/ MmapErr
  \/ DropIoUring
  \/ DropField

SpecCreate == InitCreate /\ [][NextCreate]_vars

(***************************************************************************)
(* SubmissionQueue operations called directly.                             *)
(***************************************************************************)
\* The counts a caller passes to SubmissionQueue::advance.
AdvanceCounts == {1, 2}

SqPeekSqe ==
  /\ sq.tail < MaxTail
  /\ LET r == peek_sqe(sq, sq_array) IN
       /\ sq' = r.q
       /\ sq_array' = r.array
       /\ held' = r.ret
       /\ acquired' = IF r.ret = NONE THEN acquired ELSE acquired + 1
       /\ unpublished' = IF r.ret = NONE THEN unpublished
                         ELSE Append(unpublished, r.ret)
       /\ UNCHANGED seen_empty
       /\ last' = Returned("peek_sqe", r.ret)
  /\ UNCHANGED <<params, life, sidevars, sqe_cache, hist, sq_khead, sq_ktail,
                 sqes, cqvars, inflight, callvars>>

\* Mutant of get_sqe: the entry is handed out as it was left.
get_sqe_as_left(q, array, entries) ==
  LET r == peek_sqe(q, array) IN
  [ret |-> r.ret, q |-> r.q, array |-> r.array, entries |-> entries]

\* IoUring::get_sqe: peek_sqe()?, then the entry is overwritten with zeroes.
get_sqe(q, array, entries) ==
  LET r == peek_sqe(q, array) IN
  [ret     |-> r.ret,
   q       |-> r.q,
   array   |-> r.array,
   entries |-> IF r.ret = NONE THEN entries
               ELSE [entries EXCEPT ![r.ret] = ZeroSqe]]

GetSqe(bound) ==
  /\ sq.tail < bound
  /\ pc = "idle"
  /\ LET r == get_sqe(sq, sq_array, sqes) IN
       /\ sq' = r.q
       /\ sq_array' = r.array
       /\ sqes' = r.entries
       /\ held' = r.ret
       /\ acquired' = IF r.ret = NONE THEN acquired ELSE acquired + 1
       /\ unpublished' = IF r.ret = NONE THEN unpublished
                         ELSE Append(unpublished, r.ret)
       /\ UNCHANGED seen_empty
       /\ last' = [op |-> "get_sqe", ret |-> r.ret,
                   acq |-> IF r.ret # NONE /\ sqes[r.ret] # ZeroSqe
                           THEN 1 ELSE 0]
  /\ UNCHANGED <<params, life, sidevars, sqe_cache, sq_khead, sq_ktail,
                 cqvars, inflight, callvars>>

\* The caller fills the entry it was handed, through the &mut it holds.
FillSqe ==
  /\ held # NONE
  /\ pc = "idle"
  /\ \E ud \in UserData : sqes' = [sqes EXCEPT ![held].user_data = ud]
  /\ held' = NONE
  /\ last' = Returned("fill", held)
  /\ UNCHANGED <<params, life, sidevars, sqe_cache, sq, sq_khead, sq_ktail,
                 sq_array, cqvars, inflight, callvars, ghostvars>>

SqWriteSqe ==
  /\ sq.tail < MaxTail
  /\ \E ud \in UserData :
       LET r == write_sqe(sq, sq_array, sqes,
                          [ZeroSqe EXCEPT !.user_data = ud]) IN
         /\ sq' = r.q
         /\ sq_array' = r.array
         /\ sqes' = r.entries
  /\ held' = NONE
  /\ acquired' = acquired + 1
  /\ unpublished' = Append(unpublished, BitAnd(sq.tail, sq.kring_mask))
  /\ UNCHANGED seen_empty
  /\ last' = Returned("write_sqe", 0)
  /\ UNCHANGED <<params, life, sidevars, sqe_cache, hist, sq_khead, sq_ktail,
                 cqvars, inflight, callvars>>

SqAdvance ==
  /\ \E count \in AdvanceCounts :
       /\ sq.tail + count <= MaxTail
       /\ sq' = sq_advance(sq, count)
       /\ acquired' = acquired + count
       /\ unpublished' = unpublished \o
            [i \in 1 .. count |->
               BitAnd(wrapping_add(sq.tail, i - 1), sq.kring_mask)]
       /\ UNCHANGED seen_empty
  /\ held' = NONE
  /\ last' = Returned("advance", 0)
  /\ UNCHANGED <<params, life, sidevars, sqe_cache, hist, sq_khead, sq_ktail,
                 sq_array, sqes, cqvars, inflight, callvars>>

SqUpdateKernelTail ==
  /\ LET r == sq_update_kernel_tail(sq) IN
       /\ sq_ktail' = r.ktail
       /\ last' = [op |-> "update_kernel_tail", ret |-> r.ret,
                   acq |-> acquired]
  /\ held' = NONE
  /\ acquired' = 0
  /\ unpublished' = <<>>
  /\ UNCHANGED seen_empty
  /\ UNCHANGED <<params, life, sidevars, sqe_cache, hist, sq, sq_khead,
                 sq_array, sqes, cqvars, inflight, callvars>>

SqUpdateFromKernel ==
  /\ sq' = update_from_kernel(sq, sq_khead)
  /\ held' = NONE
  /\ last' = Returned("update_from_kernel", 0)
  /\ UNCHANGED <<params, life, sidevars, sqe_cache, hist, sq_khead, sq_ktail,
                 sq_array, sqes, cqvars, inflight, callvars, ghostvars>>

\* The kernel takes the entry at its head: only while head # tail, and it is
\* the only writer of the kernel-visible head.
KernelConsume ==
  /\ sq_khead # sq_ktail
  /\ sq_khead < MaxConsume
  /\ sq_khead' = wrapping_add(sq_khead, 1)
  /\ last' = Returned("kernel", 0)
  /\ UNCHANGED <<params, life, sidevars, sqe_cache, hist, sq, sq_ktail,
                 sq_array, sqes, cqvars, inflight, held, callvars, ghostvars>>

NextSq ==
  \/ SqPeekSqe
  \/ GetSqe(MaxTail) /\ UNCHANGED hist
  \/ FillSqe /\ UNCHANGED hist
  \/ SqWriteSqe
  \/ SqAdvance
  \/ SqUpdateKernelTail
  \/ SqUpdateFromKernel
  \/ KernelConsume

SpecSq == Init /\ [][NextSq]_vars

(***************************************************************************)
(* CompletionQueue operations called directly.                             *)
(***************************************************************************)
\* The counts a caller passes to CompletionQueue::advance.
CqAdvanceCounts == {1, 2, 3}

CqUpdateKernelTail ==
  /\ cq' = cq_update_kernel_tail(cq, cq_ktail)
  /\ last' = Returned("cq_update_kernel_tail", 0)
  /\ UNCHANGED <<params, life, sidevars, sqe_cache, hist, sqvars, cq_khead,
                 cq_ktail, cq_koverflow, cqes, inflight, held, callvars,
                 ghostvars>>

CqPeek ==
  /\ last' = Returned("peek", peek(cq))
  /\ UNCHANGED <<params, life, sidevars, sqe_cache, hist, sqvars, cqvars,
                 inflight, held, callvars, ghostvars>>

\* Mutant of CqAdvance: marking completions seen clears the overflow cell.
CqAdvanceClearingOverflow ==
  /\ \E count \in CqAdvanceCounts :
       /\ cq.head + count <= MaxSeen
       /\ cq' = cq_advance(cq, count)
       /\ seen_empty' = (seen_empty \/ count > events_available(cq))
       /\ last' = [op |-> "cq_advance", ret |-> 0, acq |-> count]
  /\ cq_koverflow' = 0
  /\ UNCHANGED <<params, life, sidevars, sqe_cache, hist, sqvars, cq_khead,
                 cq_ktail, cqes, inflight, held, callvars, acquired,
                 unpublished>>

CqAdvance ==
  /\ \E count \in CqAdvanceCounts :
       /\ cq.head + count <= MaxSeen
       /\ cq' = cq_advance(cq, count)
       /\ seen_empty' = (seen_empty \/ count > events_available(cq))
       /\ last' = [op |-> "cq_advance", ret |-> 0, acq |-> count]
  /\ UNCHANGED <<params, life, sidevars, sqe_cache, hist, sqvars, cq_khead,
                 cq_ktail, cq_koverflow, cqes, inflight, held, callvars,
                 acquired, unpublished>>

\* The kernel posts a completion at its tail while the ring has room by the
\* kernel-visible head; it is the only writer of the kernel-visible tail.
CqKernelPost ==
  /\ wrapping_sub(cq_ktail, cq_khead) < params.cq_entries
  /\ \E t \in UserData :
       cqes' = [cqes EXCEPT ![BitAnd(cq_ktail, params.cq_entries - 1)] = t]
  /\ cq_ktail' = wrapping_add(cq_ktail, 1)
  /\ last' = Returned("kernel", 0)
  /\ UNCHANGED <<params, life, sidevars, sqe_cache, hist, sqvars, cq,
                 cq_khead, cq_koverflow, inflight, held, callvars, ghostvars>>

\* The kernel has a completion to post and the ring is full by the
\* kernel-visible head: the completion is dropped and counted.
CqKernelOverflow ==
  /\ wrapping_sub(cq_ktail, cq_khead) >= params.cq_entries
  /\ cq_koverflow < MaxOverflow
  /\ cq_koverflow' = wrapping_add(cq_koverflow, 1)
  /\ last' = Returned("kernel", 0)
  /\ UNCHANGED <<params, life, sidevars, sqe_cache, hist, sqvars, cq,
                 cq_khead, cq_ktail, cqes, inflight, held, callvars, ghostvars>>

\* CompletionQueue::overflow_count: a load of the overflow cell.
overflow_count(koverflow) == koverflow

CqOverflowCount ==
  /\ last' = Returned("overflow_count", overflow_count(cq_koverflow))
  /\ UNCHANGED <<params, life, sidevars, sqe_cache, hist, sqvars, cqvars,
                 inflight, held, callvars, ghostvars>>

NextCq ==
  \/ CqUpdateKernelTail
  \/ CqPeek
  \/ CqAdvance
  \/ CqOverflowCount
  \/ CqKernelPost
  \/ CqKernelOverflow

SpecCq == Init /\ [][NextCq]_vars

(***************************************************************************)
(* The kernel.                                                             *)
(***************************************************************************)
\* The kernel takes n entries starting at its head: for each it reads the
\* index array at head & (sq_entries - 1), then the entry at that index (an
\* index outside the ring is dropped), and advances the head.
RECURSIVE KernelTake(_, _, _)
KernelTake(n, khead, infl) ==
  IF n = 0 THEN [khead |-> khead, inflight |-> infl]
  ELSE LET idx == sq_array[BitAnd(khead, params.sq_entries - 1)] IN
       KernelTake(n - 1, wrapping_add(khead, 1),
                  IF idx < params.sq_entries
                  THEN [infl EXCEPT ![sqes[idx].user_data] = @ + 1]
                  ELSE infl)

\* The user_data the kernel reads for position p of the submission ring.
KernelReads(p) ==
  LET idx == sq_array[BitAnd(p, params.sq_entries - 1)] IN
  IF idx < params.sq_entries THEN sqes[idx].user_data ELSE NONE

\* Mutant of Accepted: the kernel takes whatever lies below the tail.
AcceptedUnclamped(to_submit) == 0 .. wrapping_sub(sq_ktail, sq_khead)

\* The counts io_uring_enter may return for to_submit: the kernel takes at
\* most to_submit entries, at most those between its head and the tail it
\* sees, and at most sq_entries of them in one call.
Accepted(to_submit) ==
  0 .. Min(to_submit,
           Min(wrapping_sub(sq_ktail, sq_khead), params.sq_entries))

\* The kernel posts the completion of an entry it took: at its tail when the
\* ring has room by the kernel-visible head, else the completion is dropped
\* and counted in the overflow cell.
KernelComplete ==
  /\ \E t \in Tags :
       /\ inflight[t] > 0
       /\ inflight' = [inflight EXCEPT ![t] = @ - 1]
       /\ IF wrapping_sub(cq_ktail, cq_khead) < params.cq_entries
          THEN /\ cqes' = [cqes EXCEPT
                             ![BitAnd(cq_ktail, params.cq_entries - 1)] = t]
               /\ cq_ktail' = wrapping_add(cq_ktail, 1)
               /\ UNCHANGED cq_koverflow
               /\ hist' = [hist EXCEPT !.posted = Append(@, t)]
          ELSE /\ cq_koverflow' = wrapping_add(cq_koverflow, 1)
               /\ UNCHANGED <<cqes, cq_ktail, hist>>
  /\ last' = Returned("kernel", 0)
  /\ UNCHANGED <<params, life, sidevars, sqe_cache, sqvars, cq, cq_khead,
                 held, callvars, ghostvars>>

(***************************************************************************)
(* IoUring (src/src/io_uring.rs).                                          *)
(***************************************************************************)
\* submit(), first statement: let to_submit = self.sq.update_kernel_tail();
SubmitUpdateKernelTail ==
  /\ pc = "idle"
  /\ LET r == sq_update_kernel_tail(sq) IN
       /\ sq_ktail' = r.ktail
       /\ call' = [NoCall EXCEPT !.to_submit = r.ret,
                                 !.carried = Unaccepted(call),
                                 !.reacq = acquired]
  /\ steps' = <<"update_kernel_tail">>
  /\ pc' = "enter"
  /\ held' = NONE
  /\ acquired' = 0
  /\ unpublished' = <<>>
  /\ UNCHANGED seen_empty
  /\ UNCHANGED <<params, life, sidevars, sqe_cache, hist, sq, sq_khead,
                 sq_array, sqes, cqvars, inflight, last>>

\* Mutant of SubmitEnterArgs: submit() asks enter to wait for a completion.
SubmitEnterArgsWait(to_submit) ==
  [to_submit |-> to_submit, min_complete |-> 1, flags |-> 0]

\* The arguments submit() passes to enter: (to_submit, 0, 0, None).
SubmitEnterArgs(to_submit) ==
  [to_submit |-> to_submit, min_complete |-> 0, flags |-> 0]

IORING_ENTER_GETEVENTS == 1

\* The values a caller passes as wait_count (usize): none, some, and one
\* that does not fit in 32 bits.
WaitCounts == {0, 1, 2, U32 + 1}

\* The arguments submit_and_wait(wait_count) passes to enter:
\* (to_submit, wait_count as u32, IORING_ENTER_GETEVENTS, None).
SubmitAndWaitEnterArgs(to_submit, wait_count) ==
  [to_submit |-> to_submit, min_complete |-> wait_count % U32,
   flags |-> IORING_ENTER_GETEVENTS]

\* The arguments of the enter statement of the call whose locals are c.
EnterArgs(c) ==
  IF c.kind = "submit" THEN SubmitEnterArgs(c.to_submit)
  ELSE SubmitAndWaitEnterArgs(c.to_submit, c.wait)

\* io_uring_enter sleeps: GETEVENTS is set and fewer completions are posted
\* than min_complete (which the kernel caps at the ring's size).
Blocks(args, ktail, khead) ==
  /\ BitAnd(args.flags, IORING_ENTER_GETEVENTS) # 0
  /\ wrapping_sub(ktail, khead) < Min(args.min_complete, params.cq_entries)

\* submit_and_wait(wait_count), first statement:
\* let to_submit = self.sq.update_kernel_tail();
SubmitAndWaitUpdateKernelTail ==
  /\ pc = "idle"
  /\ \E n \in WaitCounts :
       LET r == sq_update_kernel_tail(sq) IN
         /\ sq_ktail' = r.ktail
         /\ call' = [NoCall EXCEPT !.kind = "submit_and_wait",
                                   !.wait = n,
                                   !.to_submit = r.ret,
                                   !.carried = Unaccepted(call),
                                   !.reacq = acquired]
  /\ steps' = <<"update_kernel_tail">>
  /\ pc' = "enter"
  /\ held' = NONE
  /\ acquired' = 0
  /\ unpublished' = <<>>
  /\ UNCHANGED seen_empty
  /\ UNCHANGED <<params, life, sidevars, sqe_cache, hist, sq, sq_khead,
                 sq_array, sqes, cqvars, inflight, last>>

\* Mutant of SubmitEnterErr: after a failed io_uring_enter the published
\* tail is taken back to the kernel's head.
SubmitEnterErrRollingBack ==
  /\ pc = "enter"
  /\ call' = [call EXCEPT !.entered = Append(@, EnterArgs(call)),
                          !.result = EnterErr]
  /\ sq_ktail' = sq_khead
  /\ steps' = Append(steps, "enter")
  /\ pc' = "update_from_kernel"
  /\ UNCHANGED <<params, life, sidevars, sqe_cache, hist, sq, sq_khead,
                 sq_array, sqes, cqvars, inflight, held, ghostvars, last>>

\* Mutant of SubmitEnterErr: a failed io_uring_enter is tried again.
SubmitEnterErrRetried ==
  /\ pc = "enter"
  /\ Len(call.entered) < 2
  /\ call' = [call EXCEPT !.entered = Append(@, EnterArgs(call)),
                          !.result = EnterErr]
  /\ steps' = Append(steps, "enter")
  /\ pc' = "enter"
  /\ UNCHANGED <<params, life, sidevars, sqe_cache, hist, sqvars, cqvars,
                 inflight, held, ghostvars, last>>

\* submit() / submit_and_wait(), second statement:
\* let result = self.enter(to_submit, ..., None);
\* the kernel accepts some of the entries between its head and the tail,
\* then returns or sleeps for completions.
SubmitEnterOk ==
  /\ pc = "enter"
  /\ LET args == EnterArgs(call) IN
     /\ \E k \in Accepted(args.to_submit) :
          LET r == KernelTake(k, sq_khead, inflight) IN
            /\ sq_khead' = r.khead
            /\ inflight' = r.inflight
            /\ call' = [call EXCEPT !.entered = Append(@, args),
                                    !.result = k]
            /\ hist' = [hist EXCEPT !.taken = @ \o
                          [i \in 1 .. k |->
                             KernelReads(wrapping_add(sq_khead, i - 1))]]
     /\ pc' = IF Blocks(args, cq_ktail, cq_khead) THEN "waiting"
              ELSE "update_from_kernel"
  /\ steps' = Append(steps, "enter")
  /\ UNCHANGED <<params, life, sidevars, sqe_cache, sq, sq_ktail, sq_array,
                 sqes, cqvars, held, ghostvars, last>>

\* The same statement when io_uring_enter fails: nothing is accepted.
SubmitEnterErr ==
  /\ pc = "enter"
  /\ call' = [call EXCEPT !.entered = Append(@, EnterArgs(call)),
                          !.result = EnterErr]
  /\ steps' = Append(steps, "enter")
  /\ pc' = "update_from_kernel"
  /\ UNCHANGED <<params, life, sidevars, sqe_cache, hist, sqvars, cqvars,
                 inflight, held, ghostvars, last>>

\* The sleeping io_uring_enter returns: the completions asked for are there.
EnterWake ==
  /\ pc = "waiting"
  /\ ~Blocks(call.entered[1], cq_ktail, cq_khead)
  /\ pc' = "update_from_kernel"
  /\ UNCHANGED <<params, life, sidevars, sqe_cache, hist, sqvars, cqvars,
                 inflight, held, call, steps, ghostvars, last>>

\* The sleeping io_uring_enter is interrupted by a signal: it returns what
\* it accepted, or the error when it accepted nothing.
EnterInterrupted ==
  /\ pc = "waiting"
  /\ call' = [call EXCEPT !.result = IF @ > 0 THEN @ ELSE EnterErr]
  /\ pc' = "update_from_kernel"
  /\ UNCHANGED <<params, life, sidevars, sqe_cache, hist, sqvars, cqvars,
                 inflight, held, steps, ghostvars, last>>

\* submit(), third statement: self.sq.update_from_kernel();
SubmitUpdateFromKernel ==
  /\ pc = "update_from_kernel"
  /\ sq' = update_from_kernel(sq, sq_khead)
  /\ steps' = Append(steps, "update_from_kernel")
  /\ pc' = "cq_update_kernel_tail"
  /\ UNCHANGED <<params, life, sidevars, sqe_cache, hist, sq_khead, sq_ktail,
                 sq_array, sqes, cqvars, inflight, held, call, ghostvars, last>>

\* submit(), fourth statement: self.cq.update_kernel_tail(); then result
\* is returned.
SubmitCqUpdateKernelTail ==
  /\ pc = "cq_update_kernel_tail"
  /\ cq' = cq_update_kernel_tail(cq, cq_ktail)
  /\ steps' = Append(steps, "cq_update_kernel_tail")
  /\ pc' = "idle"
  /\ last' = Returned(call.kind, call.result)
  /\ UNCHANGED <<params, life, sidevars, sqe_cache, hist, sqvars, cq_khead,
                 cq_ktail, cq_koverflow, cqes, inflight, held, call, ghostvars>>

\* Mutant of peek_cqe: the refresh goes the wrong way, the shadow tail is
\* stored into the kernel-visible tail cell.
PeekCqeStoringTail ==
  /\ pc = "idle"
  /\ cq_ktail' = cq.tail
  /\ last' = Returned("peek_cqe", peek(cq))
  /\ held' = NONE
  /\ UNCHANGED <<params, life, sidevars, sqe_cache, hist, sqvars, cq,
                 cq_khead, cq_koverflow, cqes, inflight, callvars, ghostvars>>

\* peek_cqe: self.cq.update_kernel_tail(); self.cq.peek()
PeekCqe ==
  /\ pc = "idle"
  /\ cq' = cq_update_kernel_tail(cq, cq_ktail)
  /\ last' = Returned("peek_cqe", peek(cq'))
  /\ held' = NONE
  /\ UNCHANGED <<params, life, sidevars, sqe_cache, hist, sqvars, cq_khead,
                 cq_ktail, cq_koverflow, cqes, inflight, callvars, ghostvars>>

\* The counts a caller passes to copy_cqes.
CopyCounts == {1, 2, 3}

\* copy_cqes, after the tail refresh: the indices of the entries of the slice
\* it returns, from_raw_parts(cqe_ptr.add(khead), to_copy), where khead is
\* the kernel-visible head.
copy_cqes(c, khead, count) ==
  LET to_copy == Min(count, events_available(c)) IN
  [i \in 1 .. to_copy |-> khead + i - 1]

\* copy_cqes: self.cq.update_kernel_tail(); then the slice.
CopyCqes ==
  /\ pc = "idle"
  /\ cq' = cq_update_kernel_tail(cq, cq_ktail)
  /\ \E count \in CopyCounts :
       last' = [op |-> "copy_cqes", ret |-> copy_cqes(cq', cq_khead, count),
                acq |-> count]
  /\ held' = NONE
  /\ UNCHANGED <<params, life, sidevars, sqe_cache, hist, sqvars, cq_khead,
                 cq_ktail, cq_koverflow, cqes, inflight, callvars, ghostvars>>

\* cqe_seen: self.cq.advance(1); the entry passed is not looked at.
CqeSeen ==
  /\ pc = "idle"
  /\ cq.head < MaxSeen
  /\ cq' = cq_advance(cq, 1)
  /\ seen_empty' = (seen_empty \/ events_available(cq) = 0)
  /\ last' = Returned("cqe_seen", 0)
  /\ held' = NONE
  /\ UNCHANGED <<params, life, sidevars, sqe_cache, hist, sqvars, cq_khead,
                 cq_ktail, cq_koverflow, cqes, inflight, callvars, acquired,
                 unpublished>>

\* IoUring::reclaim_sqe -> SubmissionQueue::reclaim_sqe: the entry is
\* overwritten with zeroes and its pointer pushed on the cache.
reclaim_sqe(entries, cache, slot) ==
  [entries |-> [entries EXCEPT ![slot] = ZeroSqe],
   cache   |-> Append(cache, slot)]

\* The entries a caller can hold a pointer to: those get_sqe has handed out.
HandedOut == {hist.cells[i] : i \in 1 .. Len(hist.cells)}

\* The caller reclaims an entry that is not in use by the kernel (the
\* SAFETY condition of SubmissionQueue::reclaim_sqe): nothing is queued.
ReclaimSqe ==
  /\ pc = "idle"
  /\ sq.tail = sq.head
  /\ Len(sqe_cache) < MaxCache
  /\ \E slot \in HandedOut :
       LET r == reclaim_sqe(sqes, sqe_cache, slot) IN
         /\ sqes' = r.entries
         /\ sqe_cache' = r.cache
  /\ held' = NONE
  /\ last' = Returned("reclaim_sqe", 0)
  /\ UNCHANGED <<params, life, sidevars, hist, sq, sq_khead, sq_ktail,
                 sq_array, cqvars, inflight, callvars, ghostvars>>

\* IoUring::get_sqe_with_reclaim: the pointer popped from the cache when
\* there is one, else get_sqe(); queued tells whether a slot was acquired.
get_sqe_with_reclaim(q, array, entries, cache) ==
  IF cache # <<>>
  THEN [ret |-> cache[Len(cache)], q |-> q, array |-> array,
        entries |-> entries, cache |-> SubSeq(cache, 1, Len(cache) - 1),
        queued |-> FALSE]
  ELSE LET r == get_sqe(q, array, entries) IN
       [ret |-> r.ret, q |-> r.q, array |-> r.array, entries |-> r.entries,
        cache |-> cache, queued |-> r.ret # NONE]

GetSqeWithReclaim ==
  /\ pc = "idle"
  /\ sq.tail < MaxOps
  /\ LET r == get_sqe_with_reclaim(sq, sq_array, sqes, sqe_cache) IN
       /\ sq' = r.q
       /\ sq_array' = r.array
       /\ sqes' = r.entries
       /\ sqe_cache' = r.cache
       /\ held' = r.ret
       /\ acquired' = IF r.queued THEN acquired + 1 ELSE acquired
       /\ unpublished' = IF r.queued THEN Append(unpublished, r.ret)
                         ELSE unpublished
       /\ hist' = IF r.queued
                  THEN [hist EXCEPT !.written = Append(@, 0),
                                    !.cells = Append(@, r.ret),
                                    !.fresh = TRUE]
                  ELSE [hist EXCEPT !.fresh = FALSE]
       /\ last' = Returned("get_sqe_with_reclaim", r.ret)
  /\ UNCHANGED <<params, life, sidevars, sq_khead, sq_ktail, cqvars, inflight,
                 callvars, seen_empty>>

\* get_sqe has returned: the acquisition, if any, joins the history.
HistAcquired ==
  hist' = IF last'.ret = NONE THEN hist
          ELSE [hist EXCEPT !.written = Append(@, 0),
                            !.cells = Append(@, last'.ret),
                            !.fresh = TRUE]

\* The caller has filled the entry it holds.
HistFilled ==
  hist' = IF hist.fresh
          THEN [hist EXCEPT !.written[Len(hist.written)] =
                              sqes'[held].user_data]
          ELSE hist

Next ==
  \/ GetSqe(MaxOps) /\ HistAcquired
  \/ FillSqe /\ HistFilled
  \/ SubmitUpdateKernelTail
  \/ SubmitEnterOk
  \/ SubmitEnterErr
  \/ SubmitUpdateFromKernel
  \/ SubmitCqUpdateKernelTail
  \/ PeekCqe
  \/ CopyCqes
  \/ CqeSeen
  \/ KernelComplete

Spec == Init /\ [][Next]_vars

\* submit() and submit_and_wait() with the kernel completing operations.
NextWait ==
  \/ GetSqe(MaxOps) /\ HistAcquired
  \/ FillSqe /\ HistFilled
  \/ SubmitUpdateKernelTail
  \/ SubmitAndWaitUpdateKernelTail
  \/ SubmitEnterOk
  \/ SubmitEnterErr
  \/ EnterWake
  \/ EnterInterrupted
  \/ SubmitUpdateFromKernel
  \/ SubmitCqUpdateKernelTail
  \/ KernelComplete

SpecWait == Init /\ [][NextWait]_vars

(***************************************************************************)
(* Preparing operations (src/src/sqe.rs, IoUring::prepare).                *)
(***************************************************************************)
IORING_OP_NOP == 0

IORING_OP_CLOSE == 19

IORING_OP_READ == 22

IORING_OP_WRITE == 23

\* The buffer a caller passes to read and write: its address and length.
Buf == [addr |-> 64, len |-> 4]

\* The operations a caller prepares: sqe::Nop, sqe::Read::new(fd, buf,
\* offset), sqe::Write::new(fd, buf, offset) and sqe::Close::new(fd); the
\* read and the close are of the invalid descriptor.
Ops ==
  {[kind |-> "nop", fd |-> 0, offset |-> 0],
   [kind |-> "read", fd |-> 0 - 1, offset |-> 8],
   [kind |-> "write", fd |-> 3, offset |-> 8],
   [kind |-> "close", fd |-> 0 - 1, offset |-> 0]}

\* PrepSqe::prep / PrepSqeMut::prep of the operation on the entry.
prep(op, sqe) ==
  CASE op.kind = "nop" -> [sqe EXCEPT !.opcode = IORING_OP_NOP]
    [] op.kind = "read" ->
         [sqe EXCEPT !.opcode = IORING_OP_READ, !.fd = op.fd,
                     !.off = op.offset, !.addr = Buf.addr, !.len = Buf.len]
    [] op.kind = "write" ->
         [sqe EXCEPT !.opcode = IORING_OP_WRITE, !.fd = op.fd,
                     !.off = op.offset, !.addr = Buf.addr, !.len = Buf.len]
    [] op.kind = "close" ->
         [sqe EXCEPT !.opcode = IORING_OP_CLOSE, !.fd = op.fd]

\* Mutant of prepare: an operation on a negative descriptor is refused.
prepare_checking_fd(q, array, entries, op) ==
  LET r == get_sqe(q, array, entries) IN
  IF r.ret = NONE \/ op.fd < 0
  THEN [ret |-> NONE, q |-> q, array |-> array, entries |-> entries]
  ELSE [r EXCEPT !.entries[r.ret] = prep(op, r.entries[r.ret])]

\* IoUring::prepare / prepare_mut: get_sqe()?, then op.prep(sqe).
prepare(q, array, entries, op) ==
  LET r == get_sqe(q, array, entries) IN
  IF r.ret = NONE THEN r
  ELSE [r EXCEPT !.entries[r.ret] = prep(op, r.entries[r.ret])]

Prepare ==
  /\ sq.tail < MaxTail
  /\ pc = "idle"
  /\ \E op \in Ops :
       LET r == prepare(sq, sq_array, sqes, op) IN
         /\ sq' = r.q
         /\ sq_array' = r.array
         /\ sqes' = r.entries
         /\ held' = r.ret
         /\ acquired' = IF r.ret = NONE THEN acquired ELSE acquired + 1
         /\ unpublished' = IF r.ret = NONE THEN unpublished
                           ELSE Append(unpublished, r.ret)
         /\ last' = [op |-> "prepare", ret |-> r.ret, acq |-> op]
  /\ UNCHANGED <<params, life, sidevars, sqe_cache, hist, sq_khead, sq_ktail,
                 cqvars, inflight, callvars, seen_empty>>

NextPrep ==
  \/ Prepare
  \/ GetSqe(MaxTail) /\ UNCHANGED hist
  \/ SqUpdateKernelTail
  \/ SqUpdateFromKernel
  \/ KernelConsume

SpecPrep == Init /\ [][NextPrep]_vars

\* The slot-recycling path: get_sqe_with_reclaim, reclaim_sqe and submit.
NextReclaim ==
  \/ GetSqeWithReclaim
  \/ FillSqe /\ HistFilled
  \/ ReclaimSqe
  \/ SubmitUpdateKernelTail
  \/ SubmitEnterOk
  \/ SubmitEnterErr
  \/ SubmitUpdateFromKernel
  \/ SubmitCqUpdateKernelTail

SpecReclaim == Init /\ [][NextReclaim]_vars

\* The slots the kernel has still to read: those the index array names for
\* the positions from the kernel-visible head up to the kernel-visible tail.
KernelUnconsumed ==
  {sq_array[BitAnd(wrapping_add(sq_khead, i - 1), params.sq_entries - 1)] :
     i \in 1 .. wrapping_sub(sq_ktail, sq_khead)}

\* The slots acquired and not yet published by update_kernel_tail.
Unpublished == {unpublished[i] : i \in 1 .. Len(unpublished)}

\* IoUring::reclaim_sqe called with any entry the caller was handed, at any
\* time between two calls: the method itself checks nothing.
ReclaimSqeHeld ==
  /\ pc = "idle"
  /\ Len(sqe_cache) < MaxCache
  /\ \E slot \in HandedOut :
       LET r == reclaim_sqe(sqes, sqe_cache, slot) IN
         /\ sqes' = r.entries
         /\ sqe_cache' = r.cache
         /\ last' = Returned("reclaim_sqe", slot)
  /\ held' = NONE
  /\ UNCHANGED <<params, life, sidevars, hist, sq, sq_khead, sq_ktail,
                 sq_array, cqvars, inflight, callvars, ghostvars>>

\* The slot-recycling path with a caller that reclaims whenever it likes.
NextReclaimHeld ==
  \/ GetSqeWithReclaim
  \/ FillSqe /\ HistFilled
  \/ ReclaimSqeHeld
  \/ SubmitUpdateKernelTail
  \/ SubmitEnterOk
  \/ SubmitEnterErr
  \/ SubmitUpdateFromKernel
  \/ SubmitCqUpdateKernelTail

SpecReclaimHeld == Init /\ [][NextReclaimHeld]_vars

(***************************************************************************)
(* The queue methods that refresh or only read the indices, called         *)
(* directly on both queues.                                                *)
(***************************************************************************)
\* SubmissionQueue::space_left through &self: two loads and a subtraction,
\* which a build with overflow checks aborts when it underflows.
SpaceLeft ==
  /\ \E r \in (IF space_left(sq).overflow THEN {NONE} ELSE {})
                \union {space_left(sq).value} :
       last' = Returned("space_left", r)
  /\ UNCHANGED <<life, corevars_but_last, sidevars>>

\* SubmissionQueue::is_full through &self.
IsFull ==
  /\ last' = Returned("is_full", IF is_full(sq) THEN 1 ELSE 0)
  /\ UNCHANGED <<life, corevars_but_last, sidevars>>

\* CompletionQueue::events_available through &self.
EventsAvailable ==
  /\ last' = Returned("events_available", events_available(cq))
  /\ UNCHANGED <<life, corevars_but_last, sidevars>>

\* CompletionQueue::is_empty through &self.
IsEmpty ==
  /\ last' = Returned("is_empty", IF is_empty(cq) THEN 1 ELSE 0)
  /\ UNCHANGED <<life, corevars_but_last, sidevars>>

NextFrame ==
  \/ GetSqe(MaxOps) /\ UNCHANGED hist
  \/ SqUpdateKernelTail
  \/ SqUpdateFromKernel
  \/ KernelConsume
  \/ CqKernelPost
  \/ CqUpdateKernelTail
  \/ CqPeek
  \/ CqAdvance
  \/ SpaceLeft
  \/ IsFull
  \/ EventsAvailable
  \/ IsEmpty

SpecFrame == Init /\ [][NextFrame]_vars

(***************************************************************************)
(* Registration (src/src/io_uring.rs 134-216).                             *)
(***************************************************************************)
\* The lengths of the list a caller passes: empty, short, and one more
\* than a u32 holds.
ListLens == {0, 1, 2, U32}

NoErrno == "none"

\* The kernel's io_uring_register for the opcodes used here: the outcomes
\* it can give from registration state r, each with the state after.
\* Registering over an existing registration and updating or removing a
\* missing one fail; any registration can fail for lack of memory.
KernelRegister(opcode, nr_args, r) ==
  LET Ok(after) == [errno |-> NoErrno, reg |-> after]
      Fail(e)   == [errno |-> e, reg |-> r]
  IN
  CASE opcode = "RegisterBuffers" ->
         IF r.buffers > 0 THEN {Fail("EBUSY")}
         ELSE {Ok([r EXCEPT !.buffers = nr_args]), Fail("ENOMEM")}
    [] opcode = "UnregisterBuffers" ->
         IF r.buffers = 0 THEN {Fail("ENXIO")}
         ELSE {Ok([r EXCEPT !.buffers = 0])}
    [] opcode = "RegisterFiles" ->
         IF r.files > 0 THEN {Fail("EBUSY")}
         ELSE {Ok([r EXCEPT !.files = nr_args]), Fail("ENOMEM")}
    [] opcode = "UnregisterFiles" ->
         IF r.files = 0 THEN {Fail("ENXIO")}
         ELSE {Ok([r EXCEPT !.files = 0])}
    [] opcode = "RegisterFilesUpdate" ->
         IF r.files = 0 THEN {Fail("ENXIO")}
         ELSE {Ok(r), Fail("EINVAL")}

\* What a registration method returns, the registration state after, and
\* the kernel calls it made.
RegResult(tag, errno, after, calls) ==
  [ret |-> [tag |-> tag, errno |-> errno], reg |-> after, calls |-> calls]

\* Mutant of register: a failed kernel call is made a second time.
register_retrying(opcode, nr_args, r) ==
  UNION {IF k.errno = NoErrno
         THEN {RegResult("Ok", NoErrno, k.reg, 1)}
         ELSE {IF k2.errno = NoErrno
               THEN RegResult("Ok", NoErrno, k2.reg, 2)
               ELSE RegResult("RegisterFailed", k2.errno, k2.reg, 2) :
                 k2 \in KernelRegister(opcode, nr_args, k.reg)} :
           k \in KernelRegister(opcode, nr_args, r)}

\* IoUring::register: one io_uring_register, its error wrapped in
\* InitError::RegisterFailed.
register(opcode, nr_args, r) ==
  {IF k.errno = NoErrno
   THEN RegResult("Ok", NoErrno, k.reg, 1)
   ELSE RegResult("RegisterFailed", k.errno, k.reg, 1) :
     k \in KernelRegister(opcode, nr_args, r)}

\* `len.try_into()` from usize to u32: NONE when the length does not fit.
try_into_u32(len) == IF len < U32 THEN len ELSE NONE

\* The body shared by register_buffers, register_files and
\* register_files_update: the emptiness test, the length conversion, then
\* self.register(..)?.
register_list(opcode, len, r) ==
  IF len = 0 THEN {RegResult("InvalidParameters", NoErrno, r, 0)}
  ELSE IF try_into_u32(len) = NONE
       THEN {RegResult("InvalidParameters", NoErrno, r, 0)}
       ELSE register(opcode, try_into_u32(len), r)

register_buffers(len, r) == register_list("RegisterBuffers", len, r)

register_files(len, r) == register_list("RegisterFiles", len, r)

register_files_update(len, r) == register_list("RegisterFilesUpdate", len, r)

unregister_buffers(r) == register("UnregisterBuffers", 0, r)

unregister_files(r) == register("UnregisterFiles", 0, r)

\* A registration method returning outcome o for a list of len entries.
RegReturn(op, len, o) ==
  /\ reg' = o.reg
  /\ last' = [op |-> op, ret |-> o.ret,
              acq |-> [len |-> len, calls |-> o.calls]]
  /\ UNCHANGED <<life, corevars_but_last, next_user_data, free_user_data,
                 allocated>>

RegisterBuffers ==
  \E len \in ListLens : \E o \in register_buffers(len, reg) :
    RegReturn("register_buffers", len, o)

RegisterFiles ==
  \E len \in ListLens : \E o \in register_files(len, reg) :
    RegReturn("register_files", len, o)

RegisterFilesUpdate ==
  \E len \in ListLens : \E o \in register_files_update(len, reg) :
    RegReturn("register_files_update", len, o)

UnregisterBuffers ==
  \E o \in unregister_buffers(reg) : RegReturn("unregister_buffers", 0, o)

UnregisterFiles ==
  \E o \in unregister_files(reg) : RegReturn("unregister_files", 0, o)

NextRegister ==
  \/ RegisterBuffers
  \/ RegisterFiles
  \/ RegisterFilesUpdate
  \/ UnregisterBuffers
  \/ UnregisterFiles

SpecRegister == Init /\ [][NextRegister]_vars

(***************************************************************************)
(* Completion results (src/src/cqe.rs).                                    *)
(***************************************************************************)
\* The i32 range, at the width U32 stands for.
I32_MIN == 0 - (U32 \div 2)

I32_MAX == (U32 \div 2) - 1

\* The values a completion's res field takes here.
ResInputs ==
  (I32_MIN .. I32_MIN + MaxErrno) \union (0 - MaxErrno .. MaxErrno)
    \union (I32_MAX - MaxErrno .. I32_MAX)

\* `-res` on i32: for i32::MIN the negation overflows, which aborts a build
\* with overflow checks and gives i32::MIN again in a build without.
neg_i32(res) ==
  IF res = I32_MIN
  THEN {[tag |-> "panic", value |-> 0], [tag |-> "value", value |-> I32_MIN]}
  ELSE {[tag |-> "value", value |-> 0 - res]}

\* cqe_res_to_result: the outcomes for res, Err carrying the raw code given
\* to Errno::from_raw_os_error.
cqe_res_to_result(res) ==
  IF res >= 0 THEN {[tag |-> "Ok", value |-> res]}
  ELSE {IF n.tag = "panic" THEN n ELSE [tag |-> "Err", value |-> n.value] :
          n \in neg_i32(res)}

\* cqe_result_to_result: cqe_res_to_result of the completion's res field.
cqe_result_to_result(cqe) == cqe_res_to_result(cqe.res)

CqeResToResult ==
  /\ \E res \in ResInputs : \E o \in cqe_res_to_result(res) :
       last' = [op |-> "cqe_res_to_result", ret |-> o, acq |-> res]
  /\ UNCHANGED <<life, corevars_but_last, sidevars>>

CqeResultToResult ==
  /\ \E res \in ResInputs, t \in UserData :
       \E o \in cqe_result_to_result([res |-> res, user_data |-> t,
                                       flags |-> 0]) :
         last' = [op |-> "cqe_result_to_result", ret |-> o, acq |-> res]
  /\ UNCHANGED <<life, corevars_but_last, sidevars>>

NextCqe ==
  \/ CqeResToResult
  \/ CqeResultToResult

SpecCqe == Init /\ [][NextCqe]_vars

(***************************************************************************)
(* Properties.                                                             *)
(***************************************************************************)
\* Entries queued and not yet seen consumed: shadow_tail - shadow_head.
Pending == wrapping_sub(sq.tail, sq.head)

\* C1: in every reachable state of the submission ring, after any sequence
\* of peek_sqe, write_sqe, advance, update_kernel_tail and update_from_kernel
\* calls interleaved with kernel head advances, shadow_tail - shadow_head is
\* at most the ring capacity (here the capacity the descriptor holds, which
\* is never below the kernel-reported one in KernelParams).
C1_PendingAtMostCapacity == Pending <= ring_entries(sq)

\* C2: once completions have been marked seen with cqe_seen (each an unread
\* one), the next submit() or peek_cqe() that returns has made the
\* kernel-visible completion head equal to the shadow completion head.
C2_SeenHeadPublished ==
  (/\ pc = "idle"
   /\ last.op \in {"submit", "peek_cqe"}
   /\ cq.head > 0
   /\ ~seen_empty)
    => cq_khead = cq.head

\* C3, as claimed: when update_kernel_tail has returned count, count is the
\* number of slots acquired since the previous update_kernel_tail, and the
\* kernel-visible tail equals the shadow tail.
C3_CountIsAcquiredSincePublish ==
  last.op = "update_kernel_tail"
    => (last.ret = last.acq /\ sq_ktail = sq.tail)

\* C3, amended: when update_kernel_tail has returned count, count is
\* shadow_tail - shadow_head, the slots queued and not yet seen consumed
\* (those of earlier publications included), and the kernel-visible tail
\* equals the shadow tail.
C3_CountIsPending ==
  last.op = "update_kernel_tail"
    => (last.ret = Pending /\ sq_ktail = sq.tail)

\* C3 witness: a second publication with no kernel consumption in between
\* returns more than was acquired since the first.
C3_Witness ==
  /\ last.op = "update_kernel_tail"
  /\ last.acq > 0
  /\ last.ret > last.acq
  /\ sq_khead = 0

C6_CapacityScenario ==
  /\ (last.op = "get_sqe" /\ last.ret # NONE) => Pending <= params.sq_entries
  /\ (last.op = "get_sqe" /\ last.ret = NONE) => Pending = params.sq_entries
  /\ (pc = "idle" /\ last.op = "submit" /\ sq.tail > 0 /\ sq.head = sq.tail)
       => space_left(sq).value = params.sq_entries

\* C7: for N <= capacity slot acquisitions with no publication in between,
\* the slots handed out are pairwise distinct.
C7_UnpublishedSlotsDistinct ==
  Len(unpublished) <= params.sq_entries
    => \A i, j \in 1 .. Len(unpublished) :
         i # j => unpublished[i] # unpublished[j]

IsPowerOfTwo(n) == \E k \in 0 .. 12 : n = 2^k

\* C8: for both rings the descriptor's mask is capacity - 1, where capacity
\* is the power-of-two entry count the kernel reported at setup.
C8_MaskIsCapacityMinusOne ==
  /\ ring_entries(sq) = params.sq_entries
  /\ ring_mask(sq) = ring_entries(sq) - 1
  /\ IsPowerOfTwo(ring_entries(sq))
  /\ cq.kring_entries = params.cq_entries
  /\ cq.kring_mask = cq.kring_entries - 1
  /\ IsPowerOfTwo(cq.kring_entries)

\* C9: in every reachable submission-ring state space_left() does not
\* underflow, space_left() + (shadow_tail - shadow_head) is the capacity the
\* descriptor holds, and is_full() is true exactly when space_left() is 0.
C9_SpaceLeftComplement ==
  /\ ~space_left(sq).overflow
  /\ space_left(sq).value + Pending = ring_entries(sq)
  /\ is_full(sq) <=> (space_left(sq).value = 0)

\* The order of the statements of submit().
SubmitOrder ==
  <<"update_kernel_tail", "enter", "update_from_kernel",
    "cq_update_kernel_tail">>

\* C10: submit() performs its steps in this order and each exactly once:
\* publish the shadow tail, call enter with to_submit = the published count
\* and min_complete = 0, refresh the shadow submission head, refresh the
\* shadow completion tail.
C10_SubmitOrder ==
  /\ pc = "enter" => /\ steps = SubSeq(SubmitOrder, 1, 1)
                     /\ call.entered = <<>>
                     /\ call.to_submit = Pending
                     /\ sq_ktail = sq.tail
  /\ pc = "update_from_kernel" => steps = SubSeq(SubmitOrder, 1, 2)
  /\ pc = "cq_update_kernel_tail" => steps = SubSeq(SubmitOrder, 1, 3)
  /\ (pc = "idle" /\ last.op = "submit") => steps = SubmitOrder
  /\ pc \in {"update_from_kernel", "cq_update_kernel_tail"}
       \/ (pc = "idle" /\ last.op = "submit")
       => call.entered = <<[to_submit |-> call.to_submit, min_complete |-> 0,
                            flags |-> 0]>>

\* C10 witness: a submit() that published two entries has returned, the
\* kernel having accepted both.
C10_Witness ==
  /\ pc = "idle"
  /\ last.op = "submit"
  /\ call.to_submit = 2
  /\ last.ret = 2

\* C11: when the kernel accepts only k of the count entries submit() passed
\* (k < count), submit() returns Ok(k) and the count - k unaccepted entries
\* stay pending; and every submit() passes in its to_submit count what the
\* previous submit() left unaccepted plus the slots acquired since, so the
\* unaccepted entries are passed again without being re-acquired.
C11_PartialSubmitStaysPending ==
  /\ (/\ pc = "idle"
      /\ last.op = "submit"
      /\ call.result >= 0
      /\ call.result < call.to_submit)
       => (last.ret = call.result /\ Pending = call.to_submit - call.result)
  /\ steps # <<>> => call.to_submit = call.carried + call.reacq

\* C11 witness: a submit() is under way that passes again the one entry the
\* previous submit() left unaccepted, no slot having been acquired since.
C11_Witness ==
  /\ pc = "enter"
  /\ call.carried = 1
  /\ call.reacq = 0
  /\ call.to_submit = 1
  /\ Len(hist.taken) = 1
  /\ sq.tail = 2

C13_TagRoundTrip ==
  /\ \A p \in 1 .. Len(hist.taken) : hist.taken[p] = hist.written[p]
  /\ (/\ pc = "idle"
      /\ last.op = "peek_cqe"
      /\ last.ret # NONE
      /\ cq.head < Len(hist.posted))
       => cqes[last.ret] = hist.posted[cq.head + 1]

\* C14: the kernel-visible submission tail is never ahead of the shadow
\* tail; for every position p the kernel may read (kernel head <= p <
\* kernel-visible tail) the index-array cell the kernel reads for p, cell
\* p AND (sq_entries - 1), is the one that was written when p was acquired,
\* before the tail store that exposed p; and the kernel-visible tail changes
\* only in the tail store of update_kernel_tail.
C14_ArrayWrittenBeforePublish ==
  [][/\ wrapping_sub(sq'.tail, sq_ktail') < U32 \div 2
     /\ \A p \in sq_khead' .. sq_ktail' - 1 :
          hist'.cells[p + 1] = BitAnd(p, params.sq_entries - 1)
     /\ sq_ktail' # sq_ktail => (pc = "idle" /\ pc' = "enter")]_vars

\* C15: copy_cqes(n) refreshes the shadow completion tail and returns
\* exactly min(n, unread count) entries, the oldest unread completions in
\* ring order: the i-th is the entry at index (shadow_head + i - 1) AND
\* (cq_entries - 1), where the kernel posted it; the shadow head stays.
\* Every earlier cqe_seen was for an unread completion.
C15_CopyCqesOldestUnread ==
  [][(pc = "idle" /\ pc' = "idle" /\ last'.op = "copy_cqes" /\ ~seen_empty)
       => /\ cq'.tail = cq_ktail
          /\ cq'.head = cq.head
          /\ Len(last'.ret) = Min(last'.acq, events_available(cq'))
          /\ \A i \in 1 .. Len(last'.ret) :
               last'.ret[i] = BitAnd(wrapping_add(cq.head, i - 1),
                                     params.cq_entries - 1)]_vars

C17_AdvanceMovesHead ==
  [][last'.op = "cq_advance"
       => /\ cq' = [cq EXCEPT !.head = wrapping_add(cq.head, last'.acq)]
          /\ UNCHANGED <<cq_khead, cq_ktail, cqes>>
          /\ last'.acq = events_available(cq)
               => (events_available(cq') = 0 /\ peek(cq') = NONE)]_vars

\* C17 witness: three unread completions, then advance(3).
C17_Witness ==
  /\ last.op = "cq_advance"
  /\ last.acq = 3
  /\ cq.head = 3
  /\ cq.tail = 3
  /\ ~seen_empty

\* C18: update_from_kernel never decreases shadow_head modulo wraparound:
\* after every call the shadow head is at or ahead of its previous value and
\* equals the kernel-visible head, whatever the kernel has consumed between.
C18_HeadNeverDecreases ==
  [][last'.op = "update_from_kernel"
       => /\ wrapping_sub(sq'.head, sq.head) < U32 \div 2
          /\ sq'.head = sq_khead]_vars

\* C18 witness: update_from_kernel has moved the shadow head forward to the
\* kernel head, two entries consumed.
C18_Witness ==
  /\ last.op = "update_from_kernel"
  /\ sq.head = 2
  /\ sq_khead = 2

\* C19: on the submission ring the kernel-visible head cell is written by
\* the kernel only (inside io_uring_enter or on its own) and never by a
\* user-side operation; the kernel-visible tail cell is written only by the
\* tail store of update_kernel_tail; on the completion ring the
\* kernel-visible tail cell is written by the kernel only.
C19_CellWriters ==
  [][/\ sq_khead' # sq_khead => (pc = "enter" \/ last'.op = "kernel")
     /\ sq_ktail' # sq_ktail
          => \/ pc = "idle" /\ pc' = "enter"
             \/ last'.op = "update_kernel_tail"
     /\ cq_ktail' # cq_ktail => last'.op = "kernel"]_vars

\* C19 witness: all three cells have moved and a user-side operation on the
\* completion ring has just run, the shadow tail behind the kernel's.
C19_Witness ==
  /\ sq_khead = 2
  /\ sq_ktail = 2
  /\ cq_ktail = 2
  /\ cq.tail = 1
  /\ last.op = "cqe_seen"

\* C20: an entry returned by get_sqe_with_reclaim is queued exactly like one
\* returned by get_sqe, whether the recycling cache is empty or not: the
\* pending count shadow_tail - shadow_head grows by one and the entry's
\* index is recorded in the index-array cell of the position it took, so
\* that the next submit() includes it.
C20_ReclaimQueuesLikeGetSqe ==
  [][(/\ pc = "idle"
      /\ pc' = "idle"
      /\ last'.op = "get_sqe_with_reclaim"
      /\ last'.ret # NONE)
       => /\ Pending' = Pending + 1
          /\ sq_array'[BitAnd(sq.tail, ring_mask(sq))] = last'.ret]_vars

\* C21: every entry get_sqe returns has all its fields zero, whatever the
\* slot held from its previous use.
C21_GetSqeZeroFills ==
  [][(/\ pc = "idle"
      /\ pc' = "idle"
      /\ last'.op = "get_sqe"
      /\ last'.ret # NONE)
       => sqes'[last'.ret] = ZeroSqe]_vars

\* C21 witness: get_sqe has handed out, zeroed, a slot that held a prepared
\* operation.
C21_Witness ==
  /\ last.op = "get_sqe"
  /\ last.ret # NONE
  /\ last.acq = 1
  /\ sqes[last.ret] = ZeroSqe

C30_EightPreparationsSucceed ==
  (/\ last.op = "prepare"
   /\ last.acq.kind \in {"read", "write"}
   /\ sq_ktail = 0
   /\ sq.head = 0
   /\ sq.tail <= 8)
    => last.ret # NONE

\* C30 witness: the eighth preparation in a row has returned an entry on a
\* ring of two entries.
C30_Witness ==
  /\ params.sq_entries = 2
  /\ last.op = "prepare"
  /\ last.acq.kind \in {"read", "write"}
  /\ last.ret # NONE
  /\ sq_ktail = 0
  /\ sq.head = 0
  /\ acquired = 8
  /\ sq.tail = 8

\* C22: each submit() or submit_and_wait() calls io_uring_enter exactly once
\* whether it succeeds or fails; a failure is what the call returns (the
\* error with the kernel's errno), never retried.
C22_EnterOncePerCall ==
  /\ pc = "enter" => call.entered = <<>>
  /\ pc \in {"waiting", "update_from_kernel", "cq_update_kernel_tail"}
       => Len(call.entered) = 1
  /\ (pc = "idle" /\ last.op \in {"submit", "submit_and_wait"})
       => /\ Len(call.entered) = 1
          /\ last.op = call.kind
          /\ last.ret = call.result

\* C22 witness: a submit_and_wait that had entries to submit has returned
\* the error of its one failed io_uring_enter.
C22_Witness ==
  /\ pc = "idle"
  /\ last.op = "submit_and_wait"
  /\ last.ret = EnterErr
  /\ call.to_submit > 0
  /\ Len(call.entered) = 1

\* C23: submit_and_wait(n) calls io_uring_enter with min_complete = n and
\* the GETEVENTS flag, submit() with min_complete = 0 and no flag; a call
\* only sleeps in io_uring_enter when it is submit_and_wait with n > 0.
C23_EnterArguments ==
  /\ Len(call.entered) >= 1
       => IF call.kind = "submit"
          THEN /\ call.entered[1].min_complete = 0
               /\ call.entered[1].flags = 0
          ELSE /\ call.entered[1].min_complete = call.wait
               /\ call.entered[1].flags = IORING_ENTER_GETEVENTS
  /\ pc = "waiting" => (call.kind = "submit_and_wait" /\ call.wait > 0)

\* C24 (as the spec states it): the capacity passed to io_uring_setup is
\* max(1, min(n, 4096)) for every requested n, by both constructors.
C24_ClampedCapacity ==
  life.stage # "start"
    => life.passed.sq = Max(1, Min(life.requested.sq, 4096))

\* C24 (amended): IoUring::new(0) passes the default 32; in every other
\* case, and always for with_entries, the capacity passed to io_uring_setup
\* is max(1, min(n, 4096)).
C24_ClampedCapacityOrDefault ==
  life.stage # "start"
    => life.passed.sq =
         IF life.ctor = "new" /\ life.requested.sq = 0 THEN 32
         ELSE Max(1, Min(life.requested.sq, 4096))

\* C24 witness: with_entries asked for more than 4096 entries and
\* io_uring_setup was called with 4096.
C24_Witness ==
  /\ life.stage = "alive"
  /\ life.ctor = "with_entries"
  /\ life.requested.sq > 4096
  /\ life.passed.sq = 4096

\* C25: when io_uring_setup or one of the three mmap calls fails, creation
\* returns InitError::SyscallFailed or MmapFailed and no engine; every
\* mapping it had made is unmapped (once) and the descriptor is closed.
C25_FailedCreationLeaksNothing ==
  /\ life.result \in {"SyscallFailed", "MmapFailed"} <=> life.stage = "failed"
  /\ life.stage = "failed"
       => /\ life.descs = [sq |-> "none", cq |-> "none"]
          /\ life.fd # "open"
          /\ life.result = "SyscallFailed" <=> life.fd = "none"
          /\ \A m \in DOMAIN life.maps :
               /\ life.maps[m] # "mapped"
               /\ life.unmaps[m] = IF life.maps[m] = "unmapped" THEN 1 ELSE 0

\* C25 witness: the third mmap failed after two mappings had been made.
C25_Witness ==
  /\ life.stage = "failed"
  /\ life.result = "MmapFailed"
  /\ life.maps = [sq |-> "unmapped", cq |-> "unmapped", sqes |-> "none"]
  /\ life.fd = "closed"

\* C26: when an IoUring is destroyed no mapping is unmapped while the
\* SubmissionQueue or CompletionQueue holding pointers into it still
\* exists, and each mapping is unmapped exactly once.
C26_MappingsOutliveDescriptors ==
  /\ \A m \in DOMAIN life.maps : life.unmaps[m] <= 1
  /\ life.stage = "dropped"
       => \A m \in DOMAIN life.maps : life.unmaps[m] = 1
  /\ (life.maps.sq = "unmapped" \/ life.maps.sqes = "unmapped")
       => life.descs.sq # "live"
  /\ life.maps.cq = "unmapped" => life.descs.cq # "live"

\* C27: overflow_count() is 0 right after creation and never decreases; no
\* operation of the engine writes the overflow cell, only the kernel does.
C27_OverflowNeverDecreases ==
  [][/\ last.op = "new" => overflow_count(cq_koverflow) = 0
     /\ overflow_count(cq_koverflow') >= overflow_count(cq_koverflow)
     /\ cq_koverflow' # cq_koverflow => last'.op = "kernel"
     /\ last'.op = "overflow_count" => last'.ret = cq_koverflow]_vars

\* C27 witness: overflow_count() has returned a count of dropped
\* completions after the caller marked completions seen.
C27_Witness ==
  /\ last.op = "overflow_count"
  /\ last.ret = MaxOverflow
  /\ cq.head > 0

\* C28: a freshly created ring has is_cq_empty() true, cq_space_left() = 0,
\* sq_space_left() > 0 and is_sq_full() false; and in every state
\* is_cq_empty() holds exactly when the count of unread completions (shadow
\* tail - shadow head) is 0.
C28_FreshRingAndEmptiness ==
  /\ (pc = "idle" /\ last.op = "new")
       => /\ is_cq_empty(cq)
          /\ cq_space_left(cq) = 0
          /\ sq_space_left(sq) > 0
          /\ ~is_sq_full(sq)
  /\ is_cq_empty(cq) <=> (wrapping_sub(cq.tail, cq.head) = 0)

\* C28 witness: the ring is empty again after a completion was read and
\* marked seen.
C28_Witness ==
  /\ pc = "idle"
  /\ last.op = "cqe_seen"
  /\ ~seen_empty
  /\ cq.head > 0
  /\ is_cq_empty(cq)

\* C31: alloc_user_data never returns 0 and never returns a tag that is
\* still allocated, for any interleaving of alloc_user_data and
\* free_user_data in which only held tags are freed, counter wraparound
\* included: no tag is held twice, and 0 is never held.
C31_UniqueTags ==
  /\ allocated[0] = 0
  /\ \A t \in UdTags : allocated[t] <= 1
  /\ last.op = "alloc_user_data" => last.ret # 0

\* C32: allocated_user_data_count() is the number of tags currently
\* allocated, 0 on a fresh ring, and available_user_data_count() is the
\* number of freed tags awaiting reuse.
C32_CountsMatch ==
  /\ last.op = "new"
       => allocated_user_data_count(next_user_data, free_user_data) = 0
  /\ last.op = "allocated_user_data_count" => last.ret = Live
  /\ last.op = "available_user_data_count"
       => last.ret = Len(free_user_data)

\* C33: reclaim_sqe never resets an entry that is still in use: the slot it
\* zeroes and caches is neither one the kernel has still to read (between
\* the kernel-visible head and the kernel-visible tail) nor one acquired
\* and not yet submitted.
C33_ReclaimNeverInUse ==
  [][(last'.op = "reclaim_sqe" /\ sqe_cache' # sqe_cache)
       => /\ last'.ret \notin KernelUnconsumed
          /\ last'.ret \notin Unpublished]_vars

\* C34: the shadow submission head is never ahead of the kernel-visible
\* head, and get_sqe never hands out (and zero-fills) a slot the kernel has
\* still to read, one named for a position from the kernel-visible head up
\* to the kernel-visible tail.
C34_GetSqeOutsideKernelRange ==
  [][/\ sq.head <= sq_khead
     /\ (/\ pc = "idle"
         /\ pc' = "idle"
         /\ last'.op = "get_sqe"
         /\ last'.ret # NONE)
          => last'.ret \notin KernelUnconsumed]_vars

\* C35: after any sequence of peek_cqe, copy_cqes, cqe_seen and submit
\* calls, cqe_seen with nothing unread included, the shadow completion head
\* has not passed the shadow tail and events_available() is at most the
\* ring's capacity.
C35_HeadNeverPassesTail ==
  /\ cq.head <= cq.tail
  /\ events_available(cq) <= params.cq_entries

\* C36: peek_cqe and copy_cqes only return entries at positions the kernel
\* has published and the caller has not yet marked seen, those from the
\* shadow head up to the kernel-visible tail; and the shadow tail is never
\* ahead of the kernel-visible tail.
C36_OnlyPublishedPositions ==
  [][/\ cq.tail <= cq_ktail
     /\ (pc = "idle" /\ pc' = "idle" /\ last'.op = "peek_cqe"
           /\ last'.ret # NONE)
          => cq.head < cq_ktail
     /\ (pc = "idle" /\ pc' = "idle" /\ last'.op = "copy_cqes")
          => \A i \in 1 .. Len(last'.ret) :
               cq.head <= last'.ret[i] /\ last'.ret[i] < cq_ktail]_vars

\* C37: when io_uring_enter fails inside submit() or submit_and_wait() the
\* error is returned, the published kernel-visible tail is not rolled
\* back, the shadow submission head and the shadow completion tail are
\* still refreshed from the kernel, and the entries the kernel did not
\* consume are counted again in the next call's to_submit.
C37_FailedEnterKeepsEntries ==
  [][/\ (call.result = EnterErr
          /\ pc \in {"update_from_kernel", "cq_update_kernel_tail"})
          => sq_ktail = sq.tail
     /\ (call.result = EnterErr /\ pc # "idle" /\ pc' = "idle")
          => /\ last'.ret = EnterErr
             /\ steps' = SubmitOrder
             /\ sq_ktail' = sq'.tail
             /\ sq'.head = sq_khead'
             /\ cq'.tail = cq_ktail'
             /\ Pending' = call.to_submit
     /\ (call.result = EnterErr /\ pc = "idle" /\ pc' = "enter")
          => call'.to_submit = call.to_submit + acquired]_vars

\* C37 witness: a submit() of two entries has returned the error, both
\* entries still published and pending.
C37_Witness ==
  /\ pc = "idle"
  /\ last.op = "submit"
  /\ last.ret = EnterErr
  /\ call.to_submit = 2
  /\ sq_ktail = 2
  /\ Pending = 2
  /\ sq.head = sq_khead

\* C38: SubmissionQueue::update_from_kernel changes only the shadow head
\* (to the kernel-visible head), SubmissionQueue::update_kernel_tail only
\* the kernel-visible tail (to the shadow tail),
\* CompletionQueue::update_kernel_tail only the shadow completion tail (to
\* the kernel-visible tail), and space_left, is_full, events_available,
\* is_empty and peek change no index and no entry of either queue.
C38_FrameOfIndexMethods ==
  [][/\ last'.op = "update_from_kernel"
          => /\ sq' = [sq EXCEPT !.head = sq_khead]
             /\ UNCHANGED <<sq_khead, sq_ktail, sq_array, sqes, cqvars>>
     /\ last'.op = "update_kernel_tail"
          => /\ sq_ktail' = sq.tail
             /\ UNCHANGED <<sq, sq_khead, sq_array, sqes, cqvars>>
     /\ last'.op = "cq_update_kernel_tail"
          => /\ cq' = [cq EXCEPT !.tail = cq_ktail]
             /\ UNCHANGED <<cq_khead, cq_ktail, cq_koverflow, cqes, sqvars>>
     /\ last'.op \in {"space_left", "is_full", "events_available",
                      "is_empty", "peek"}
          => UNCHANGED <<sqvars, cqvars>>]_vars

\* C38 witness: update_from_kernel has just moved the shadow head to a
\* kernel head of 2 with a third entry acquired and completions unread.
C38_Witness ==
  /\ last.op = "update_from_kernel"
  /\ sq.head = 2
  /\ sq.tail = 3
  /\ sq_ktail = 2
  /\ cq.tail = 2
  /\ cq.head = 1

\* The three methods that register a list.
ListRegistrations ==
  {"register_buffers", "register_files", "register_files_update"}

\* C39 as stated: register_buffers, register_files and
\* register_files_update return InvalidParameters without a kernel call
\* for an empty list, and for every non-empty list make exactly one kernel
\* register call, a failure of which is returned as RegisterFailed.
C39_OneCallPerNonEmptyList ==
  last.op \in ListRegistrations
    => /\ last.acq.len = 0
            => last.ret.tag = "InvalidParameters" /\ last.acq.calls = 0
       /\ last.acq.len > 0
            => /\ last.acq.calls = 1
               /\ last.ret.tag \in {"Ok", "RegisterFailed"}

\* C39 amended: an empty list, and a list longer than a u32 can count,
\* return InvalidParameters without a kernel call; every other list makes
\* exactly one kernel register call, and its failure is returned as
\* RegisterFailed carrying the kernel's error, its success as Ok.
C39_OneCallPerValidList ==
  last.op \in ListRegistrations
    => /\ (last.acq.len = 0 \/ last.acq.len >= U32)
            => /\ last.ret.tag = "InvalidParameters"
               /\ last.acq.calls = 0
       /\ (last.acq.len > 0 /\ last.acq.len < U32)
            => /\ last.acq.calls = 1
               /\ last.ret.tag \in {"Ok", "RegisterFailed"}
               /\ last.ret.tag = "RegisterFailed"
                    <=> last.ret.errno # NoErrno

\* C39 witness: register_buffers with two buffers over an existing
\* registration has failed after one kernel call.
C39_Witness ==
  /\ last.op = "register_buffers"
  /\ last.acq.len = 2
  /\ last.acq.calls = 1
  /\ last.ret = [tag |-> "RegisterFailed", errno |-> "EBUSY"]
  /\ reg.buffers = 1

\* The two conversions of a completion's result.
ResConversions == {"cqe_res_to_result", "cqe_result_to_result"}

\* C40: cqe_res_to_result(res) returns Ok(res) for every res >= 0 and Err
\* with the error code -res for every res < 0, over the whole i32 range,
\* res = i32::MIN included, without overflow.
C40_ResToResult ==
  last.op \in ResConversions
    => /\ last.acq >= 0 => last.ret = [tag |-> "Ok", value |-> last.acq]
       /\ last.acq < 0
            => last.ret = [tag |-> "Err", value |-> 0 - last.acq]

====
